---- MODULE Spec2Model ----
(***************************************************************************)
(* ECIES study (src/ecies_study/src/main.rs): ECDH over secp256k1,          *)
(* HKDF-SHA256, AES-256-GCM and ECDSA, composed into send_message /         *)
(* decrypt_message_info and the demonstration in main().                    *)
(*                                                                         *)
(* The curve arithmetic is kept concrete on a scaled-down curve of the same *)
(* shape as secp256k1 (y^2 = x^3 + 7 over a prime field, prime group order, *)
(* cofactor 1), and so is the algebra of ECDSA and the CTR part of GCM (a   *)
(* keystream added to the plaintext byte by byte).  The hashes are ideal:   *)
(* HKDF and SHA-256 are injective and the GCM tag is unforgeable, which is  *)
(* what the libraries provide up to negligible probability.                 *)
(***************************************************************************)
EXTENDS Integers, Sequences, FiniteSets, TLC

(* ----------------------------- bounds ---------------------------------- *)
\* longest plaintext, in bytes
MaxLen == 2
\* bytes take the values 0 .. ByteMod-1
ByteMod == 2
\* nonces drawn by Aes256Gcm::generate_nonce take the values 0 .. NonceMax
NonceMax == 1
\* number of send operations followed in SpecSends
MaxSends == 2

(* ------------------- k256::Secp256k1, scaled down ---------------------- *)
\* field prime of the curve
FieldP == 13
\* curve coefficient b of y^2 = x^3 + b
CurveB == 7
\* (prime) order of the group of points
GroupOrder == 7
\* the point at infinity; never the value of a PublicKey
Infinity == [inf |-> TRUE]
\* base point
Generator == [x |-> 7, y |-> 5]

Scalars == 1 .. (GroupOrder - 1)

FMod(a) == ((a % FieldP) + FieldP) % FieldP

FInv(a) == CHOOSE i \in 1 .. (FieldP - 1) : (i * FMod(a)) % FieldP = 1

ECAdd(p1, p2) ==
    IF p1 = Infinity THEN p2
    ELSE IF p2 = Infinity THEN p1
    ELSE IF p1.x = p2.x /\ FMod(p1.y + p2.y) = 0 THEN Infinity
    ELSE LET lam == IF p1 = p2
                    THEN FMod(3 * p1.x * p1.x * FInv(2 * p1.y))
                    ELSE FMod((p2.y - p1.y) * FInv(p2.x - p1.x))
             x3  == FMod(lam * lam - p1.x - p2.x)
             y3  == FMod(lam * (p1.x - x3) - p1.y)
         IN  [x |-> x3, y |-> y3]

RECURSIVE ScalarMul(_, _)
ScalarMul(k, pt) == IF k = 0 THEN Infinity ELSE ECAdd(pt, ScalarMul(k - 1, pt))

\* multiples of the base point, tabulated once
PubTable == [k \in Scalars |-> ScalarMul(k, Generator)]

\* SecretKey::public_key
public_key(secret) == PubTable[secret.scalar]

SecretKeys == {[scalar |-> k] : k \in Scalars}
\* the identity secrets a sender is followed with
SenderSecrets == {[scalar |-> k] : k \in {1, GroupOrder - 2}}
\* the static public keys a receiver is followed with
ReceiverKeys == {PubTable[k] : k \in 2 .. 3}
PublicKeys == {PubTable[k] : k \in Scalars}

\* elliptic_curve::ecdh::diffie_hellman: the x coordinate of secret * point
DhTable == [k \in Scalars |-> [pt \in PublicKeys |-> ScalarMul(k, pt).x]]

diffie_hellman(scalar, point) == [raw_secret_bytes |-> DhTable[scalar][point]]

(* ------------------------- hkdf::Hkdf<Sha256> -------------------------- *)
\* Hkdf::new(None, ikm) followed by expand(&[], okm): deterministic and
\* injective in ikm (no salt, no info)
HkdfExpand(ikm) == (5 * ikm + 3) % FieldP

(* --------------------------- aes_gcm::Aes256Gcm ------------------------ *)
Bytes == 0 .. (ByteMod - 1)
Messages == UNION {[1 .. n -> Bytes] : n \in 0 .. MaxLen}
Nonces == {[bytes |-> n] : n \in 0 .. NonceMax}

\* byte i of the CTR keystream under (key, nonce)
KeyStream(key, nonce, i) == (3 * key + 5 * nonce.bytes + 7 * i) % ByteMod

\* the GCM authentication tag of body under (key, nonce); flip is the mask
\* of bits altered after the tag was computed, 0 for a tag as computed
GcmTag(key, nonce, body) == [k |-> key, n |-> nonce, c |-> body, flip |-> 0]

\* Aead::encrypt
AeadEncrypt(cipher, nonce, plaintext) ==
    LET body == [i \in 1 .. Len(plaintext) |->
                    (plaintext[i] + KeyStream(cipher.key, nonce, i)) % ByteMod]
    IN  [ok |-> TRUE, val |-> [body |-> body, tag |-> GcmTag(cipher.key, nonce, body)]]

\* Aead::decrypt: the tag is checked before any plaintext is produced
AeadDecrypt(cipher, nonce, ciphertext) ==
    IF ciphertext.tag = GcmTag(cipher.key, nonce, ciphertext.body)
    THEN [ok |-> TRUE,
          val |-> [i \in 1 .. Len(ciphertext.body) |->
                    (ciphertext.body[i] + ByteMod
                       - KeyStream(cipher.key, nonce, i)) % ByteMod]]
    ELSE [ok |-> FALSE, err |-> "aead::Error"]

\* Result::unwrap: the value, or a panic that unwinds out of the caller
Unwrap(r) == IF r.ok THEN [kind |-> "returned", val |-> r.val]
                     ELSE [kind |-> "panic", err |-> r.err]

(* ------------------------------ main.rs -------------------------------- *)
\* generate_keypair, rnd the scalar drawn from OsRng
generate_keypair(rnd) ==
    LET secret == [scalar |-> rnd]
        public == public_key(secret)
    IN  <<public, secret>>

\* compute_shared_secret multiplying the base point instead of the peer's
compute_shared_secret_base_point(pubkey, secret) ==
    diffie_hellman(secret.scalar, Generator)

compute_shared_secret(pubkey, secret) ==
    LET shared_secret == diffie_hellman(secret.scalar, pubkey)
    IN  shared_secret

\* generate_cipher, rnd the nonce drawn from OsRng
generate_cipher(diffie_secret, rnd) ==
    LET okm    == HkdfExpand(diffie_secret.raw_secret_bytes)
        cipher == [key |-> okm]
        nonce  == rnd
    IN  <<cipher, nonce>>

encrypt_message_with_cipher(message, cipher, nonce) ==
    Unwrap(AeadEncrypt(cipher, nonce, message))

decrypt_message(nonce, cipher, ciphertext) ==
    LET decrypted == AeadDecrypt(cipher, nonce, ciphertext)
    IN  Unwrap(decrypted)

(* --------------------------- k256::ecdsa ------------------------------- *)
\* arithmetic of scalars, modulo the group order
SMod(a) == ((a % GroupOrder) + GroupOrder) % GroupOrder

\* inverses of the non-zero scalars, tabulated once
SInvTable == [a \in Scalars |-> CHOOSE i \in Scalars : (i * a) % GroupOrder = 1]

SInv(a) == SInvTable[SMod(a)]

\* multiples of the public keys, tabulated once
MulTable ==
    [k \in 0 .. (GroupOrder - 1) |-> [pt \in PublicKeys |-> ScalarMul(k, pt)]]

RECURSIVE SumBytes(_, _)
SumBytes(bytes, i) ==
    IF i > Len(bytes) THEN 0 ELSE (i + 1) * bytes[i] + SumBytes(bytes, i + 1)

\* the SHA-256 digest of a ciphertext, reduced to a scalar
Digest(m) ==
    SMod(SumBytes(m.body, 1) + Len(m.body) + 2 * m.tag.k + 3 * m.tag.n.bytes
            + 5 * m.tag.flip)

\* r of a signature made with the nonce k: the x coordinate of k * G as a
\* scalar
SigR(k) == PubTable[k].x % GroupOrder

\* s of a signature over the digest z by the secret d with the nonce k
SigS(k, z, d) == SMod(SInv(k) * (z + SigR(k) * d))

\* the nonce of RFC 6979: a function of (d, z), stepped on while r or s is 0
RECURSIVE NextNonce(_, _, _)
NextNonce(k, z, d) ==
    IF SigR(k) # 0 /\ SigS(k, z, d) # 0 THEN k
    ELSE NextNonce((k % (GroupOrder - 1)) + 1, z, d)

SigNonce(z, d) == NextNonce(((3 * d + 5 * z) % (GroupOrder - 1)) + 1, z, d)

\* s in the high half of the group order
IsHigh(s) == 2 * s > GroupOrder

\* SigningKey::sign: deterministic ECDSA with s normalised to the low half.
\* A signature binds no key: it verifies under the signer's key and under
\* the one other key recovered from it (at this width that second key is
\* the point at infinity for some signatures, which then have none).
\* digest is what the pair (r, s) was computed from at full width: SHA-256
\* is taken to be injective, so pairs over different messages differ
EcdsaSign(d, m) ==
    LET z == Digest(m)
        k == SigNonce(z, d)
        s == SigS(k, z, d)
    IN  [r |-> SigR(k),
         s |-> IF IsHigh(s) THEN GroupOrder - s ELSE s,
         digest |-> m]

\* the scalar digest of a message checked against a signature over another
\* message. Its SHA-256 digest is unrelated to the signed one: it is not the
\* signed digest, no key verifies the signature for both, and the keys
\* recovered from it are points of the curve
UnrelatedDigest(m, signature) ==
    LET z0   == Digest(signature.digest)
        sk   == {SMod(signature.s * k) : k \in {j \in Scalars : SigR(j) = signature.r}}
        excl == {z0} \cup sk \cup {SMod(z0 + 2 * t) : t \in sk}
    IN  SMod(Digest(m)
               + (CHOOSE i \in 0 .. (GroupOrder - 1) :
                     /\ SMod(Digest(m) + i) \notin excl
                     /\ \A j \in 0 .. (i - 1) : SMod(Digest(m) + j) \in excl))

\* the check of ECDSA: a signature with a high s is refused (BIP 0062);
\* otherwise x(u1 * G + u2 * Q) = r, u1 = z / s, u2 = r / s
EcdsaCheck(pubkey, z, signature) ==
    IF IsHigh(signature.s) THEN FALSE
    ELSE LET w  == SInv(signature.s)
             u1 == SMod(z * w)
             u2 == SMod(signature.r * w)
             pt == ECAdd(MulTable[u1][Generator], MulTable[u2][pubkey])
         IN  pt # Infinity /\ pt.x % GroupOrder = signature.r

\* VerifyingKey::verify
EcdsaVerify(pubkey, m, signature) ==
    EcdsaCheck(pubkey,
               IF m = signature.digest THEN Digest(m)
                                       ELSE UnrelatedDigest(m, signature),
               signature)

sign_message(secret_key, message) ==
    LET signing_key == secret_key.scalar
    IN  EcdsaSign(signing_key, message)

\* verify_signature that checks the signature against the digest it was
\* made over, whatever message it is given
verify_signature_any_message(pubkey, message, signature) ==
    LET verifying_key == pubkey
    IN  EcdsaCheck(verifying_key, Digest(signature.digest), signature)

verify_signature(pubkey, message, signature) ==
    LET verifying_key == pubkey
    IN  EcdsaVerify(verifying_key, message, signature)

\* send_message agreeing the key with the identity secret, not eph_sec
send_locals_identity_key(message, from_pub, from_secret, to_pub, rnd_eph, rnd_nonce) ==
    LET kp            == generate_keypair(rnd_eph)
        shared_diffie == compute_shared_secret(to_pub, from_secret)
        cn            == generate_cipher(shared_diffie, rnd_nonce)
        ciphertext    == AeadEncrypt(cn[1], cn[2], message)
    IN  [eph_pub |-> kp[1], eph_sec |-> kp[2],
         shared_diffie |-> shared_diffie, cipher |-> cn[1], nonce |-> cn[2],
         ciphertext |-> ciphertext,
         signature |-> sign_message(from_secret, Unwrap(ciphertext).val)]

\* the locals of send_message up to the self-check, rnd_eph and rnd_nonce the
\* values drawn from OsRng by generate_keypair and generate_cipher
send_locals(message, from_pub, from_secret, to_pub, rnd_eph, rnd_nonce) ==
    LET kp            == generate_keypair(rnd_eph)
        eph_pub       == kp[1]
        eph_sec       == kp[2]
        shared_diffie == compute_shared_secret(to_pub, eph_sec)
        cn            == generate_cipher(shared_diffie, rnd_nonce)
        ciphertext    == AeadEncrypt(cn[1], cn[2], message)
    IN  [eph_pub |-> eph_pub, eph_sec |-> eph_sec,
         shared_diffie |-> shared_diffie, cipher |-> cn[1], nonce |-> cn[2],
         ciphertext |-> ciphertext,
         signature |-> sign_message(from_secret, Unwrap(ciphertext).val)]

\* send_message without its assert!
send_message_no_assert(message, from_pub, from_secret, to_pub, rnd_eph, rnd_nonce) ==
    LET l == send_locals(message, from_pub, from_secret, to_pub, rnd_eph, rnd_nonce)
    IN  [kind |-> "returned",
         val  |-> [ciphertext       |-> l.ciphertext.val,
                   receiver_pubkey  |-> to_pub,
                   sender_ephemeral |-> l.eph_pub,
                   nonce            |-> l.nonce,
                   sender_id_pubkey |-> from_pub,
                   signature        |-> l.signature]]

\* send_message putting eph_sec where eph_pub belongs
send_message_eph_sec(message, from_pub, from_secret, to_pub, rnd_eph, rnd_nonce) ==
    LET l == send_locals(message, from_pub, from_secret, to_pub, rnd_eph, rnd_nonce)
    IN  IF ~verify_signature(from_pub, l.ciphertext.val, l.signature)
        THEN [kind |-> "panic", err |-> "assertion failed"]
        ELSE [kind |-> "returned",
              val  |-> [ciphertext       |-> l.ciphertext.val,
                        receiver_pubkey  |-> to_pub,
                        sender_ephemeral |-> l.eph_sec,
                        nonce            |-> l.nonce,
                        sender_id_pubkey |-> from_pub,
                        signature        |-> l.signature]]

send_message(message, from_pub, from_secret, to_pub, rnd_eph, rnd_nonce) ==
    LET l == send_locals(message, from_pub, from_secret, to_pub, rnd_eph, rnd_nonce)
    IN  IF ~l.ciphertext.ok
        THEN Unwrap(l.ciphertext)
        ELSE IF ~verify_signature(from_pub, l.ciphertext.val, l.signature)
        THEN [kind |-> "panic", err |-> "assertion failed"]
        ELSE [kind |-> "returned",
              val  |-> [ciphertext       |-> l.ciphertext.val,
                        receiver_pubkey  |-> to_pub,
                        sender_ephemeral |-> l.eph_pub,
                        nonce            |-> l.nonce,
                        sender_id_pubkey |-> from_pub,
                        signature        |-> l.signature]]

\* decrypt_message_info decrypting under the nonce generate_cipher drew
decrypt_message_info_own_nonce(message_info, secret_key, rnd_nonce) ==
    LET shared_diffie == compute_shared_secret(message_info.sender_ephemeral, secret_key)
        cn            == generate_cipher(shared_diffie, rnd_nonce)
        decrypted     == AeadDecrypt(cn[1], cn[2], message_info.ciphertext)
    IN  Unwrap(decrypted)

\* decrypt_message_info with unwrap_or_default in place of unwrap
decrypt_message_info_or_default(message_info, secret_key, rnd_nonce) ==
    LET shared_diffie == compute_shared_secret(message_info.sender_ephemeral, secret_key)
        cipher        == generate_cipher(shared_diffie, rnd_nonce)[1]
        decrypted     == AeadDecrypt(cipher, message_info.nonce, message_info.ciphertext)
    IN  IF decrypted.ok THEN Unwrap(decrypted)
                        ELSE [kind |-> "returned", val |-> <<>>]

\* rnd_nonce is drawn by generate_cipher and dropped
decrypt_message_info(message_info, secret_key, rnd_nonce) ==
    LET shared_diffie == compute_shared_secret(message_info.sender_ephemeral, secret_key)
        cipher        == generate_cipher(shared_diffie, rnd_nonce)[1]
        decrypted     == AeadDecrypt(cipher, message_info.nonce, message_info.ciphertext)
    IN  Unwrap(decrypted)

(* ------------------------------ state ---------------------------------- *)
None == [none |-> TRUE]

VARIABLES
    \* one message through send_message, the transport and decrypt_message_info
    state,        \* where the message is in its life
    message,      \* send_message: message
    from_pub,     \* send_message: from_pub
    from_secret,  \* send_message: from_secret
    to_pub,       \* send_message: to_pub
    drawn,        \* what send_message drew from OsRng
    sent,         \* the EncryptedMessageInfo as send_message returned it
    envelope,     \* the EncryptedMessageInfo as it is now
    secret_key,   \* decrypt_message_info: secret_key
    outcome,      \* how decrypt_message_info ended
    \* main()
    pc,                 \* position in main
    keys_a,             \* (pubkey_a, secret_key_a)
    keys_b,             \* (pubkey_b, secret_key_b)
    shared_a,
    shared_b,
    cipher_nonce,       \* (cipher, nonce)
    encrypted_message,
    decrypted_message,
    \* a run of send operations
    used                \* what each encryption so far was keyed with

envVars  == <<state, message, from_pub, from_secret, to_pub, drawn, sent,
              envelope, secret_key, outcome>>
mainVars == <<pc, keys_a, keys_b, shared_a, shared_b, cipher_nonce,
              encrypted_message, decrypted_message>>
vars     == <<envVars, mainVars, used>>

InitEnv ==
    /\ state = "Unsent"
    /\ message \in Messages
    /\ from_pub \in PublicKeys
    /\ from_secret \in SenderSecrets
    /\ to_pub \in ReceiverKeys
    /\ drawn = None
    /\ sent = None
    /\ envelope = None
    /\ secret_key = None
    /\ outcome = None

InitMain ==
    /\ pc = "start"
    /\ keys_a = None
    /\ keys_b = None
    /\ shared_a = None
    /\ shared_b = None
    /\ cipher_nonce = None
    /\ encrypted_message = None
    /\ decrypted_message = None

\* the message variables while main() or a run of sends is followed instead
IdleEnv ==
    /\ state = "Unsent"
    /\ message \in Messages
    /\ from_pub = Generator
    /\ from_secret = [scalar |-> 1]
    /\ to_pub = PubTable[2]
    /\ drawn = None
    /\ sent = None
    /\ envelope = None
    /\ secret_key = None
    /\ outcome = None

(* ------------- one message: send, transport, receive ------------------- *)
\* Unsent -> Assembled, or Rejected when send_message panics
SendMessage ==
    /\ state = "Unsent"
    /\ \E rnd_eph \in Scalars, rnd_nonce \in Nonces :
         LET r == send_message(message, from_pub, from_secret, to_pub, rnd_eph, rnd_nonce)
         IN  /\ drawn' = [eph |-> rnd_eph, nonce |-> rnd_nonce]
             /\ IF r.kind = "returned"
                THEN /\ state' = "Assembled"
                     /\ sent' = r.val
                     /\ envelope' = r.val
                ELSE /\ state' = "Rejected"
                     /\ UNCHANGED <<sent, envelope>>
    /\ UNCHANGED <<message, from_pub, from_secret, to_pub, secret_key, outcome,
                   mainVars, used>>

\* the caller hands the envelope to the transport
HandOver ==
    /\ state = "Assembled"
    /\ state' = "InTransit"
    /\ UNCHANGED <<message, from_pub, from_secret, to_pub, drawn, sent, envelope,
                   secret_key, outcome, mainVars, used>>

\* the transport may alter one field of the envelope once
Alter(field, value) ==
    /\ state = "InTransit"
    /\ envelope = sent
    /\ value # envelope[field]
    /\ envelope' = [envelope EXCEPT ![field] = value]
    /\ UNCHANGED <<state, message, from_pub, from_secret, to_pub, drawn, sent,
                   secret_key, outcome, mainVars, used>>

AlterBody ==
    \E i \in 1 .. MaxLen, b \in Bytes :
       /\ envelope # None
       /\ i <= Len(envelope.ciphertext.body)
       /\ Alter("ciphertext",
                [envelope.ciphertext EXCEPT !.body[i] = b])

AlterTag ==
    /\ envelope # None
    /\ Alter("ciphertext", [envelope.ciphertext EXCEPT !.tag.flip = 1])

AlterNonce == \E n \in Nonces : Alter("nonce", n)

AlterEphemeral == \E pk \in PublicKeys : Alter("sender_ephemeral", pk)

AlterSenderId == \E pk \in PublicKeys : Alter("sender_id_pubkey", pk)

AlterSignature ==
    /\ envelope # None
    /\ \E sk \in SecretKeys :
          Alter("signature", sign_message(sk, envelope.ciphertext))

Deliver ==
    /\ state = "InTransit"
    /\ state' = "Received"
    /\ UNCHANGED <<message, from_pub, from_secret, to_pub, drawn, sent, envelope,
                   secret_key, outcome, mainVars, used>>

\* DecryptMessageInfo run again on an envelope that was rejected
DecryptMessageInfoRetry ==
    /\ state \in {"Received", "Rejected"}
    /\ envelope # None
    /\ \E sk \in SecretKeys, rnd_nonce \in Nonces :
         LET r == decrypt_message_info(envelope, sk, rnd_nonce)
         IN  /\ secret_key' = sk
             /\ outcome' = r
             /\ state' = IF r.kind = "returned" THEN "Decrypted" ELSE "Rejected"
    /\ UNCHANGED <<message, from_pub, from_secret, to_pub, drawn, sent, envelope,
                   mainVars, used>>

\* Received -> Decrypted, or Rejected when decrypt_message_info panics; the
\* envelope is moved into the call, so it is not available to a second one
DecryptMessageInfo ==
    /\ state = "Received"
    /\ \E sk \in SecretKeys, rnd_nonce \in Nonces :
         LET r == decrypt_message_info(envelope, sk, rnd_nonce)
         IN  /\ secret_key' = sk
             /\ outcome' = r
             /\ state' = IF r.kind = "returned" THEN "Decrypted" ELSE "Rejected"
    /\ UNCHANGED <<message, from_pub, from_secret, to_pub, drawn, sent, envelope,
                   mainVars, used>>

Init == InitEnv /\ InitMain /\ used = {}

Next ==
    \/ SendMessage
    \/ HandOver
    \/ AlterBody
    \/ AlterTag
    \/ AlterNonce
    \/ AlterEphemeral
    \/ AlterSenderId
    \/ AlterSignature
    \/ Deliver
    \/ DecryptMessageInfo

Spec == Init /\ [][Next]_vars

(* ------------------------------- main() -------------------------------- *)
MainGenerateKeypairA ==
    /\ pc = "start"
    /\ \E rnd \in Scalars : keys_a' = generate_keypair(rnd)
    /\ pc' = "keypair_b"
    /\ UNCHANGED <<keys_b, shared_a, shared_b, cipher_nonce, encrypted_message,
                   decrypted_message, envVars, used>>

MainGenerateKeypairB ==
    /\ pc = "keypair_b"
    /\ \E rnd \in Scalars : keys_b' = generate_keypair(rnd)
    /\ pc' = "shared"
    /\ UNCHANGED <<keys_a, shared_a, shared_b, cipher_nonce, encrypted_message,
                   decrypted_message, envVars, used>>

\* both shared secrets and the assert! that compares them
MainComputeSharedSecret ==
    /\ pc = "shared"
    /\ shared_a' = compute_shared_secret(keys_b[1], keys_a[2])
    /\ shared_b' = compute_shared_secret(keys_a[1], keys_b[2])
    /\ pc' = IF shared_a'.raw_secret_bytes = shared_b'.raw_secret_bytes
             THEN "cipher" ELSE "panic"
    /\ UNCHANGED <<keys_a, keys_b, cipher_nonce, encrypted_message,
                   decrypted_message, envVars, used>>

MainGenerateCipher ==
    /\ pc = "cipher"
    /\ \E rnd \in Nonces : cipher_nonce' = generate_cipher(shared_a, rnd)
    /\ pc' = "encrypt"
    /\ UNCHANGED <<keys_a, keys_b, shared_a, shared_b, encrypted_message,
                   decrypted_message, envVars, used>>

MainEncrypt ==
    /\ pc = "encrypt"
    /\ LET r == encrypt_message_with_cipher(message, cipher_nonce[1], cipher_nonce[2])
       IN  IF r.kind = "returned"
           THEN encrypted_message' = r.val /\ pc' = "decrypt"
           ELSE encrypted_message' = encrypted_message /\ pc' = "panic"
    /\ UNCHANGED <<keys_a, keys_b, shared_a, shared_b, cipher_nonce,
                   decrypted_message, envVars, used>>

MainDecrypt ==
    /\ pc = "decrypt"
    /\ LET r == decrypt_message(cipher_nonce[2], cipher_nonce[1], encrypted_message)
       IN  IF r.kind = "returned"
           THEN decrypted_message' = r.val /\ pc' = "assert_eq"
           ELSE decrypted_message' = decrypted_message /\ pc' = "panic"
    /\ UNCHANGED <<keys_a, keys_b, shared_a, shared_b, cipher_nonce,
                   encrypted_message, envVars, used>>

MainAssertEq ==
    /\ pc = "assert_eq"
    /\ pc' = IF message = decrypted_message THEN "done" ELSE "panic"
    /\ UNCHANGED <<keys_a, keys_b, shared_a, shared_b, cipher_nonce,
                   encrypted_message, decrypted_message, envVars, used>>

MainInit == IdleEnv /\ InitMain /\ used = {}

MainNext ==
    \/ MainGenerateKeypairA
    \/ MainGenerateKeypairB
    \/ MainComputeSharedSecret
    \/ MainGenerateCipher
    \/ MainEncrypt
    \/ MainDecrypt
    \/ MainAssertEq

SpecMain == MainInit /\ [][MainNext]_vars

(* ------------------------ a run of send operations --------------------- *)
\* the plaintexts of a run of sends: the empty one and the one-byte ones
ShortMessages == {m \in Messages : Len(m) <= 1}

\* one more message sent with send_message by the identity (from_pub,
\* from_secret); used records what its encryption was keyed with and what
\* the call drew
SendAgain ==
    /\ Cardinality(used) < MaxSends
    /\ \E m \in ShortMessages, to \in {to_pub}, rnd_eph \in Scalars,
          rnd_nonce \in Nonces :
         LET l == send_locals(m, from_pub, from_secret, to, rnd_eph, rnd_nonce)
             r == send_message(m, from_pub, from_secret, to, rnd_eph, rnd_nonce)
         IN  /\ r.kind = "returned"
             /\ used' = used \cup {[via |-> "send_message", key |-> l.cipher.key,
                                    nonce |-> l.nonce, plaintext |-> m,
                                    to_pub |-> to, rnd_eph |-> rnd_eph,
                                    rnd_nonce |-> rnd_nonce]}
    /\ UNCHANGED <<envVars, mainVars>>

\* one more message encrypted as main() does, from the static shared secret
\* of (from_secret, to_pub): generate_cipher, then encrypt_message_with_cipher
EncryptAgain ==
    /\ Cardinality(used) < MaxSends
    /\ \E m \in ShortMessages, rnd_nonce \in Nonces :
         LET cn == generate_cipher(compute_shared_secret(to_pub, from_secret), rnd_nonce)
             r  == encrypt_message_with_cipher(m, cn[1], cn[2])
         IN  /\ r.kind = "returned"
             /\ used' = used \cup {[via |-> "generate_cipher", key |-> cn[1].key,
                                    nonce |-> cn[2], plaintext |-> m,
                                    to_pub |-> to_pub, rnd_eph |-> 0,
                                    rnd_nonce |-> rnd_nonce]}
    /\ UNCHANGED <<envVars, mainVars>>

SendsInit ==
    /\ IdleEnv
    /\ message = <<>>
    /\ InitMain
    /\ used = {}

SendsNext == SendAgain \/ EncryptAgain

SpecSends == SendsInit /\ [][SendsNext]_vars

(* ------------------------------ properties ----------------------------- *)
\* the locals of the send_message call that produced sent
SentLocals ==
    send_locals(message, from_pub, from_secret, to_pub, drawn.eph, drawn.nonce)

\* the cipher decrypt_message_info derived from the envelope and secret_key
ReceiveCipher ==
    generate_cipher(compute_shared_secret(envelope.sender_ephemeral, secret_key),
                    drawn.nonce)[1]

\* decrypt_message_info has run
Received == outcome # None

\* C1: round trip. An envelope returned by send_message and delivered as it
\* was, decrypted by decrypt_message_info with the secret key of to_pub,
\* comes back as exactly the bytes of the message, whatever ephemeral key
\* and nonce send_message drew; and decrypt_message under the cipher and
\* nonce of the encryption returns the message encrypted.
C1_RoundTrip ==
    /\ (Received /\ envelope = sent /\ public_key(secret_key) = to_pub)
          => outcome = [kind |-> "returned", val |-> message]
    /\ state = "Assembled" =>
          LET l == SentLocals
              e == encrypt_message_with_cipher(message, l.cipher, l.nonce)
          IN  /\ e.kind = "returned"
              /\ decrypt_message(l.nonce, l.cipher, e.val)
                    = [kind |-> "returned", val |-> message]

C1_Witness ==
    /\ state = "Decrypted"
    /\ envelope = sent
    /\ public_key(secret_key) = to_pub
    /\ Len(message) = MaxLen
    /\ sent.ciphertext.body # message

\* C2: tamper detection. When the ciphertext or the nonce handed to
\* decrypt_message_info differs from what send_message produced, or the key
\* it derives differs from the key of the encryption, the AEAD reports an
\* authentication error and no plaintext is returned.
C2_TamperDetection ==
    (/\ Received
     /\ \/ envelope.ciphertext # sent.ciphertext
        \/ envelope.nonce # sent.nonce
        \/ ReceiveCipher # SentLocals.cipher)
    => /\ outcome = [kind |-> "panic", err |-> "aead::Error"]
       /\ state = "Rejected"

C2_Witness ==
    /\ Received
    /\ envelope.ciphertext.body # sent.ciphertext.body
    /\ envelope.ciphertext.tag = sent.ciphertext.tag
    /\ ReceiveCipher = SentLocals.cipher
    /\ state = "Rejected"

\* the secret keys whose shared secret with any point is that of the
\* receiver: the discrete logarithm of to_pub and its negation
RelatedToReceiver ==
    {sk \in SecretKeys : public_key(sk).x = to_pub.x}

\* C3: failure surfacing. decrypt_message_info run on an untouched envelope
\* with a secret key unrelated to the receiver's hands its caller a typed
\* failure value; it neither aborts nor returns bytes.
C3_TypedFailure ==
    (Received /\ envelope = sent /\ secret_key \notin RelatedToReceiver)
       => outcome.kind = "failure"

\* C4: receive-path signature gate. decrypt_message_info returns a plaintext
\* only for an envelope whose signature verifies against its
\* sender_id_pubkey and ciphertext.
C4_SignatureGate ==
    state = "Decrypted"
       => verify_signature(envelope.sender_id_pubkey, envelope.ciphertext,
                           envelope.signature)

\* C5: shared-secret symmetry. For the key pairs A and B that
\* generate_keypair produced, compute_shared_secret(pubkey_b, secret_key_a)
\* and compute_shared_secret(pubkey_a, secret_key_b) are the same bytes.
C5_SharedSecretSymmetry ==
    shared_a # None
       => /\ shared_a = compute_shared_secret(keys_b[1], keys_a[2])
          /\ shared_b = compute_shared_secret(keys_a[1], keys_b[2])
          /\ shared_a.raw_secret_bytes = shared_b.raw_secret_bytes
          /\ pc # "panic"

C5_Witness ==
    /\ pc = "cipher"
    /\ keys_a[2].scalar + keys_b[2].scalar # GroupOrder
    /\ keys_a # keys_b

\* ciphertexts other than c: c with one byte or the tag altered, and the
\* encryptions of every other message under the key of c and every nonce
OtherCiphertexts(c) ==
    ({[c EXCEPT !.body[i] = b] : i \in 1 .. Len(c.body), b \in Bytes}
       \cup {[c EXCEPT !.tag.flip = 1]}
       \cup {AeadEncrypt([key |-> k], n, m).val :
                k \in {c.tag.k}, n \in Nonces, m \in Messages})
    \ {c}

\* C6: signature binding. The signature in an envelope from send_message is
\* the sender's signature over the ciphertext of that envelope, and under
\* the sender's public key it verifies against no other ciphertext.
C6_SignatureBinding ==
    /\ state = "Assembled" =>
          /\ sent.signature = sign_message(from_secret, sent.ciphertext)
          /\ sent.ciphertext = SentLocals.ciphertext.val
          /\ verify_signature(from_pub, sent.ciphertext, sent.signature)
          /\ \A c2 \in OtherCiphertexts(sent.ciphertext) :
                ~verify_signature(from_pub, c2, sent.signature)
    /\ (state = "InTransit" /\ envelope.ciphertext # sent.ciphertext)
          => ~verify_signature(from_pub, envelope.ciphertext, sent.signature)

C6_Witness ==
    /\ state = "Received"
    /\ envelope.ciphertext # sent.ciphertext
    /\ envelope.signature = sent.signature

\* two encryptions keyed alike
SamePair(u1, u2) == u1.key = u2.key /\ u1.nonce = u2.nonce

\* C7: key/nonce freshness, as claimed. Over any run of send operations no
\* (symmetric key, nonce) pair encrypts two distinct plaintexts.
C7_NoPairReuse ==
    \A u1 \in used, u2 \in used :
       SamePair(u1, u2) => u1.plaintext = u2.plaintext

\* C7, amended. Every send_message encrypts under the nonce it drew itself
\* and the key of the ephemeral secret it drew itself, so two send_message
\* calls to one receiver are keyed alike only when the random source gave
\* both the same nonce and the same ephemeral secret up to sign; encryptions
\* from one static shared secret are keyed alike exactly when the random
\* source gave both the same nonce.
C7_FreshDraws ==
    \A u1 \in used, u2 \in used :
       /\ u1.nonce = u1.rnd_nonce
       /\ (u1.via = "send_message" /\ u2.via = "send_message"
              /\ u1.to_pub = u2.to_pub /\ SamePair(u1, u2))
            => /\ u1.rnd_nonce = u2.rnd_nonce
               /\ \/ u1.rnd_eph = u2.rnd_eph
                  \/ u1.rnd_eph + u2.rnd_eph = GroupOrder
       /\ (u1.via = "generate_cipher" /\ u2.via = "generate_cipher")
            => (SamePair(u1, u2) <=> u1.rnd_nonce = u2.rnd_nonce)

C7_Witness ==
    \E u1 \in used, u2 \in used :
       /\ u1.via = "send_message" /\ u2.via = "send_message"
       /\ SamePair(u1, u2)
       /\ u1.rnd_eph + u2.rnd_eph = GroupOrder
       /\ u1.plaintext # u2.plaintext

\* what send_message held secret while it built sent
SendSecrets ==
    {from_secret, SentLocals.eph_sec, SentLocals.shared_diffie, SentLocals.cipher}

EnvelopeFields ==
    {"ciphertext", "receiver_pubkey", "sender_ephemeral", "nonce",
     "sender_id_pubkey", "signature"}

\* C8: secret confinement. An envelope from send_message has the six fields
\* ciphertext, receiver_pubkey, sender_ephemeral, nonce, sender_id_pubkey
\* and signature, none of which is the sender's identity secret, the
\* ephemeral secret, the shared secret or the derived key.
C8_SecretConfinement ==
    state = "Assembled"
       => /\ DOMAIN sent = EnvelopeFields
          /\ \A f \in EnvelopeFields : sent[f] \notin SendSecrets
          /\ sent.receiver_pubkey = to_pub
          /\ sent.sender_ephemeral = public_key(SentLocals.eph_sec)
          /\ sent.sender_id_pubkey = from_pub
          /\ sent.nonce = drawn.nonce

C8_Witness ==
    /\ state = "Assembled"
    /\ sent.sender_ephemeral # sent.receiver_pubkey
    /\ SentLocals.eph_sec # from_secret

Edges ==
    {<<"Unsent", "Assembled">>, <<"Assembled", "InTransit">>,
     <<"InTransit", "Received">>, <<"Received", "Decrypted">>,
     <<"Unsent", "Rejected">>, <<"Received", "Rejected">>}

\* C9: envelope lifecycle. Every step leaves the message where it is or
\* moves it along Unsent, Assembled, InTransit, Received, Decrypted, with
\* Rejected in place of the next state when send_message or
\* decrypt_message_info fails; nothing leaves Decrypted or Rejected, and
\* decrypt_message_info runs once.
C9_Lifecycle ==
    [][/\ state' = state \/ <<state, state'>> \in Edges
       /\ state \in {"Decrypted", "Rejected"} => UNCHANGED <<state, outcome, envelope>>
       /\ state' = "Decrypted" => outcome'.kind = "returned"
       /\ (outcome' # None /\ outcome'.kind = "panic") => state' = "Rejected"]_vars

C9_Witness ==
    /\ state = "Rejected"
    /\ Received
    /\ envelope = sent

\* C10: sender self-check, as claimed. Every envelope send_message returns
\* carries a signature that verifies against its sender_id_pubkey and
\* ciphertext, and when from_pub is not the public key of from_secret
\* send_message aborts and returns no envelope.
C10_KeyMismatchAborts ==
    /\ state = "Assembled"
          => verify_signature(sent.sender_id_pubkey, sent.ciphertext, sent.signature)
    /\ (drawn # None /\ from_pub # public_key(from_secret))
          => sent = None /\ envelope = None /\ state = "Rejected"

\* C10, amended. Every envelope send_message returns carries a signature
\* that verifies against its sender_id_pubkey and ciphertext, and when the
\* signature made with from_secret does not verify under from_pub
\* send_message aborts and returns no envelope; it returns for the public
\* key of from_secret, whatever it drew.
C10_SenderSelfCheck ==
    /\ state = "Assembled"
          => /\ verify_signature(sent.sender_id_pubkey, sent.ciphertext, sent.signature)
             /\ sent.sender_id_pubkey = from_pub
             /\ sent.signature = SentLocals.signature
    /\ (drawn # None /\ sent = None)
          => /\ envelope = None /\ state = "Rejected"
             /\ ~verify_signature(from_pub, SentLocals.ciphertext.val,
                                  SentLocals.signature)
    /\ (drawn # None /\ from_pub = public_key(from_secret)) => sent # None

C10_Witness ==
    /\ state = "Assembled"
    /\ from_pub # public_key(from_secret)
    /\ verify_signature(from_pub, sent.ciphertext, sent.signature)

====
